---- MODULE Spec2Model ----
(***************************************************************************)
(* vidvault: the passkey-backed verification-request state machine of      *)
(* server/routes.ts (routes + DatabaseStorage).  Every HTTP handler is one *)
(* atomic action; its effect is computed by a *Result operator that        *)
(* follows the handler line by line and returns the store, the session and *)
(* the HTTP response the handler leaves behind.                            *)
(***************************************************************************)
EXTENDS Integers, Sequences, FiniteSets, TLC

(* ---------------------------- bounds ----------------------------------- *)
MaxChallenge == 2
MaxCounter == 1
MaxRequests == 2
MaxVideos == 1
MaxTime == 2

(* ---------------------------- universe --------------------------------- *)
Vips == {"r1", "r2"}
Creators == {"c1"}
Users == Vips \cup Creators
\* the users who log in; r2 is a reviewer who is only named, and who
\* registered the passkey k2 before
Actors == {"c1", "r1"}
NoUser == "none"
CredIds == {"k1", "k2"}
NoChallenge == 0
NoAuth == [id |-> "none", challenge |-> 0, counter |-> 0, sigOK |-> FALSE]
Null == 0

\* users.role (seedVips creates the vips, signup creates creators)
roleOf(u) == IF u \in Vips THEN "vip" ELSE "creator"

\* an authentication assertion as the client posts it (authResult): the
\* credential id it names, the challenge in its client data, the signature
\* counter of the authenticator, and whether the signature is the one the
\* named credential's private key makes over that client data
Assertions ==
  [id : CredIds, challenge : 1..MaxChallenge, counter : 0..MaxCounter, sigOK : {TRUE}]
    \cup [id : CredIds, challenge : 1..MaxChallenge, counter : {0}, sigOK : {FALSE}]
AuthInputs == Assertions \cup {NoAuth}

\* a registration response: the challenge in its client data, the new
\* credential's id and initial counter, and whether the attestation checks
Attestations ==
  [challenge : 1..MaxChallenge, credId : CredIds, counter : 0..MaxCounter, sigOK : {TRUE}]
    \cup [challenge : 1..MaxChallenge, credId : CredIds, counter : {0}, sigOK : {FALSE}]

RequestIds == 1..(MaxRequests + 1)
\* requestIds of a batch body: arrays of at most two ids, duplicates allowed
IdLists == {<<>>} \cup {<<a>> : a \in RequestIds} \cup {<<1, b>> : b \in RequestIds}
VipLists == {<<>>, <<"r1">>, <<"r1", "r1">>, <<"r1", "r2">>}

\* the calls of the decision routes: an assertion is posted with verify and
\* reject; ignore and a bad :action are posted without one
SingleInputs ==
  {<<id, a, auth>> : id \in RequestIds, a \in {"verify", "reject"}, auth \in AuthInputs}
    \cup {<<id, "ignore", NoAuth>> : id \in RequestIds}
    \cup {<<1, "approve", NoAuth>>}
BatchInputs ==
  {<<a, ids, auth>> : a \in {"verify", "reject"}, ids \in IdLists, auth \in AuthInputs}
    \cup {<<"ignore", ids, NoAuth>> : ids \in IdLists}
    \cup {<<"approve", <<1>>, NoAuth>>}

VARIABLES
  session,        \* req.session: [userId, challenge]
  issued,         \* history: the challenges issued to the current session
  nextChallenge,  \* challenges generated so far (each one is fresh)
  passkeys,       \* table passkeys: set of rows, credential_id unique
  requests,       \* table verification_requests: row id = index
  videos,         \* table videos: uploaderId of each row
  isAuthApproved, \* users.is_auth_approved of the creator
  now,            \* the clock new Date() reads
  notifications,  \* table notifications: [userId, type] of each row
  inflight,       \* the decision calls between their reads and their answer
  wsConnections,  \* Map<string, Set<WebSocket>>: per user id, has(id) and the set
  sockets,        \* per live-update connection: readyState and connectedUserId
  last            \* the last call: route, HTTP response, what it verified

vars ==
  <<session, issued, nextChallenge, passkeys, requests, videos, isAuthApproved, now,
    notifications, inflight, wsConnections, sockets, last>>

(* ---------------------------- responses -------------------------------- *)
Resp(op, status, error) == [op |-> op, status |-> status, error |-> error, auth |-> NoAuth]
Ok(op) == Resp(op, 200, "")

\* the JSON body of a 200 answer, as far as the properties read it: the
\* processed count of a batch, the challenge and the credential list of a
\* begin call
NoBody == [processed |-> 0, challenge |-> NoChallenge, credentials |-> {}]

\* what a handler leaves behind: the session, the tables, the response. The
\* handlers below insert no notification, and answer NoBody unless they say
\* otherwise.
Out(s, p, r, res) ==
  [session |-> s, passkeys |-> p, requests |-> r, res |-> res,
   notifications |-> notifications, body |-> NoBody]
Fail(res) == Out(session, passkeys, requests, res)

(* ---------------------------- middleware ------------------------------- *)
\* variant of requireRole that lets every logged-in user through
requireRole_AuthOnly(op, roles) ==
  IF session.userId = NoUser THEN Resp(op, 401, "Authentication required")
  ELSE Ok(op)

\* requireRole(...roles): the 401 or 403 it answers, or 200 when it calls next()
requireRole(op, roles) ==
  IF session.userId = NoUser THEN Resp(op, 401, "Authentication required")
  ELSE IF roleOf(session.userId) \notin roles THEN Resp(op, 403, "Access denied")
  ELSE Ok(op)

(* ---------------------------- storage ---------------------------------- *)
\* variant of getPasskeysByUser without the WHERE clause
getPasskeysByUser_AllRows(userId) == passkeys

getPasskeysByUser(userId) == {p \in passkeys : p.userId = userId}

\* a set: at most one row, credential_id is unique
getPasskeyByCredentialId(credentialId) == {p \in passkeys : p.credentialId = credentialId}

\* variant of updatePasskeyCounter without the WHERE clause
updatePasskeyCounter_AllRows(pk, credentialId, counter) ==
  {[p EXCEPT !.counter = counter] : p \in pk}

\* UPDATE passkeys SET counter WHERE id = :id (a row is named by its
\* credential id here, which is unique like the row id)
updatePasskeyCounter(pk, credentialId, counter) ==
  {IF p.credentialId = credentialId THEN [p EXCEPT !.counter = counter] ELSE p : p \in pk}

getVerificationRequest(id) == IF id \in DOMAIN requests THEN {requests[id]} ELSE {}

\* variant of updateVerificationRequestStatus that sets the status only
updateVerificationRequestStatus_StatusOnly(reqs, id, status, at) ==
  IF id \in DOMAIN reqs
  THEN [reqs EXCEPT ![id] = [@ EXCEPT !.status = status]]
  ELSE reqs

\* UPDATE ... SET status, processedAt = new Date() WHERE id = :id
updateVerificationRequestStatus(reqs, id, status, at) ==
  IF id \in DOMAIN reqs
  THEN [reqs EXCEPT ![id] = [@ EXCEPT !.status = status, !.processedAt = at]]
  ELSE reqs

\* Promise.all(requestIds.map(id => updateVerificationRequestStatus(id, status)))
RECURSIVE updateAll(_, _, _, _)
updateAll(reqs, ids, status, at) ==
  IF ids = <<>> THEN reqs
  ELSE updateAll(updateVerificationRequestStatus(reqs, Head(ids), status, at),
                 Tail(ids), status, at)

(* ---------------------------- WebAuthn primitive ----------------------- *)
\* verifyAuthenticationResponse of @simplewebauthn/server as the handlers
\* call it: it throws when the client data's challenge is not the expected
\* one and when the counter did not advance (unless both counters are 0),
\* answers verified = false on a bad signature, and else answers verified
\* with newCounter = the assertion's counter
verifyAuthenticationResponse(auth, expectedChallenge, passkey) ==
  IF auth.challenge # expectedChallenge THEN "threw"
  ELSE IF (auth.counter > 0 \/ passkey.counter > 0) /\ auth.counter <= passkey.counter
       THEN "threw"
  ELSE IF ~auth.sigOK THEN "unverified"
  ELSE "verified"

\* variant of verifyRegistrationResponse that does not check the attestation
verifyRegistrationResponse_Unchecked(att, expectedChallenge) ==
  IF att.challenge # expectedChallenge THEN "threw" ELSE "verified"

\* verifyRegistrationResponse: throws on a challenge mismatch, else verified
\* iff the attestation checks
verifyRegistrationResponse(att, expectedChallenge) ==
  IF att.challenge # expectedChallenge THEN "threw"
  ELSE IF ~att.sigOK THEN "unverified"
  ELSE "verified"

\* variant of statusOf that maps reject like verify
statusOf_RejectVerifies(action) ==
  IF action \in {"verify", "reject"} THEN "verified" ELSE "ignored"

\* const status = action === "verify" ? "verified" : action === "reject" ? ...
statusOf(action) ==
  IF action = "verify" THEN "verified"
  ELSE IF action = "reject" THEN "rejected" ELSE "ignored"

(* ---------------------------- handlers --------------------------------- *)
\* the result of an authentication block: the response (200 = go on), the
\* passkeys table it leaves
Block(res, pk) == [res |-> res, passkeys |-> pk]
Verified(op, auth, pk) == Block([Ok(op) EXCEPT !.auth = auth], pk)

\* variant of SingleAuthBlock whose failures do not return
SingleAuthBlock_NoReturnOnFailure(action, auth) ==
  LET op == "single"
      found == getPasskeyByCredentialId(auth.id)
      passkey == CHOOSE p \in found : TRUE
  IN  IF action # "ignore" /\ getPasskeysByUser(session.userId) # {}
           /\ auth # NoAuth /\ found # {}
           /\ verifyAuthenticationResponse(auth, session.challenge, passkey) = "verified"
      THEN Verified(op, auth, updatePasskeyCounter(passkeys, passkey.credentialId, auth.counter))
      ELSE Block(Ok(op), passkeys)

\* variant of SingleAuthBlock that asks a passkey for every action
SingleAuthBlock_IgnoreGated(action, auth) ==
  LET op == "single"
      found == getPasskeyByCredentialId(auth.id)
      passkey == CHOOSE p \in found : TRUE
  IN  IF getPasskeysByUser(session.userId) = {}
        THEN Block(Resp(op, 400, "Passkey authentication required"), passkeys)
      ELSE IF auth = NoAuth
        THEN Block(Resp(op, 400, "Passkey authentication required"), passkeys)
      ELSE IF found = {}
        THEN Block(Resp(op, 400, "Invalid passkey"), passkeys)
      ELSE IF verifyAuthenticationResponse(auth, session.challenge, passkey) # "verified"
        THEN Block(Resp(op, 400, "Passkey verification failed"), passkeys)
      ELSE Verified(op, auth, updatePasskeyCounter(passkeys, passkey.credentialId, auth.counter))

\* POST /api/vip/verification-requests/:id/:action, the block under
\* if (action !== "ignore" && passkeys.length > 0)
SingleAuthBlock(action, auth) ==
  LET op == "single"
      found == getPasskeyByCredentialId(auth.id)
      passkey == CHOOSE p \in found : TRUE
  IN  IF action = "ignore" \/ getPasskeysByUser(session.userId) = {}
        THEN Block(Ok(op), passkeys)
      ELSE IF auth = NoAuth
        THEN Block(Resp(op, 400, "Passkey authentication required"), passkeys)
      ELSE IF found = {}
        THEN Block(Resp(op, 400, "Invalid passkey"), passkeys)
      ELSE IF verifyAuthenticationResponse(auth, session.challenge, passkey) # "verified"
        THEN Block(Resp(op, 400, "Passkey verification failed"), passkeys)
      ELSE Verified(op, auth, updatePasskeyCounter(passkeys, passkey.credentialId, auth.counter))

\* POST /api/vip/verification-requests/:id/:action
SingleDecisionResult(id, action, auth) ==
  LET op == "single"
      gate == requireRole(op, {"vip"})
      blk == SingleAuthBlock(action, auth)
      reqs2 == updateVerificationRequestStatus(requests, id, statusOf(action), now + 1)
  IN  IF gate.status # 200 THEN Fail(gate)
      ELSE IF action \notin {"verify", "reject", "ignore"}
        THEN Fail(Resp(op, 400, "Invalid action"))
      ELSE IF blk.res.status # 200 THEN Out(session, blk.passkeys, requests, blk.res)
      ELSE IF id \notin DOMAIN requests
        THEN Out(session, blk.passkeys, requests,
                 [Resp(op, 404, "Request not found") EXCEPT !.auth = blk.res.auth])
      ELSE Out(session, blk.passkeys, reqs2, blk.res)

\* variant of invalidRequests that looks at the first identifier only
invalidRequests_FirstOnly(requestIds, user) ==
  {i \in DOMAIN requestIds :
     /\ i = 1
     /\ \/ getVerificationRequest(requestIds[i]) = {}
        \/ requests[requestIds[i]].vipId # user
        \/ requests[requestIds[i]].status # "pending"}

\* verificationRequests.filter(vr => !vr || vr.vipId !== user.id || vr.status !== "pending")
invalidRequests(requestIds, user) ==
  {i \in DOMAIN requestIds :
     \/ getVerificationRequest(requestIds[i]) = {}
     \/ requests[requestIds[i]].vipId # user
     \/ requests[requestIds[i]].status # "pending"}

\* POST /api/vip/verification-requests/batch/:action, the block under
\* if (action !== "ignore")
BatchAuthBlock(action, auth) ==
  LET op == "batch"
      pks == getPasskeysByUser(session.userId)
      found == {p \in pks : p.credentialId = auth.id}
      passkey == CHOOSE p \in found : TRUE
  IN  IF action = "ignore" THEN Block(Ok(op), passkeys)
      ELSE IF pks = {}
        THEN Block(Resp(op, 400, "No passkey registered"), passkeys)
      ELSE IF auth = NoAuth
        THEN Block(Resp(op, 400, "Passkey verification required"), passkeys)
      ELSE IF found = {}
        THEN Block(Resp(op, 400, "Passkey not found"), passkeys)
      ELSE IF verifyAuthenticationResponse(auth, session.challenge, passkey) # "verified"
        THEN Block(Resp(op, 400, "Passkey verification failed"), passkeys)
      ELSE Verified(op, auth, updatePasskeyCounter(passkeys, passkey.credentialId, auth.counter))

\* POST /api/vip/verification-requests/batch/:action
BatchDecisionResult(action, requestIds, auth) ==
  LET op == "batch"
      gate == requireRole(op, {"vip"})
      blk == BatchAuthBlock(action, auth)
      reqs2 == updateAll(requests, requestIds, statusOf(action), now + 1)
  IN  IF gate.status # 200 THEN Fail(gate)
      ELSE IF action \notin {"verify", "reject", "ignore"}
        THEN Fail(Resp(op, 400, "Invalid action"))
      ELSE IF requestIds = <<>>
        THEN Fail(Resp(op, 400, "No request IDs provided"))
      ELSE IF invalidRequests(requestIds, session.userId) # {}
        THEN Fail(Resp(op, 400, "Some requests are invalid or not pending"))
      ELSE IF blk.res.status # 200 THEN Out(session, blk.passkeys, requests, blk.res)
      ELSE [Out(session, blk.passkeys, reqs2, blk.res)
              EXCEPT !.body = [NoBody EXCEPT !.processed = Len(requestIds)]]

\* POST /api/webauthn/register/options
RegisterOptionsResult ==
  LET op == "register/options"
      gate == requireRole(op, {"vip"})
      creds == {p.credentialId : p \in getPasskeysByUser(session.userId)}
  IN  IF gate.status # 200 THEN Fail(gate)
      ELSE [Out([session EXCEPT !.challenge = nextChallenge + 1], passkeys, requests, Ok(op))
              EXCEPT !.body = [NoBody EXCEPT !.challenge = nextChallenge + 1,
                                             !.credentials = creds]]

\* the credential a registration verified, recorded with the response
registered(att) ==
  [id |-> att.credId, challenge |-> att.challenge, counter |-> att.counter, sigOK |-> TRUE]

\* variant of RegisterVerifyResult whose insert meets no unique constraint
RegisterVerifyResult_NoUnique(att) ==
  LET op == "register/verify"
      gate == requireRole(op, {"vip"})
      v == verifyRegistrationResponse(att, session.challenge)
      row == [userId |-> session.userId, credentialId |-> att.credId,
              publicKey |-> att.credId, counter |-> att.counter]
  IN  IF gate.status # 200 THEN Fail(gate)
      ELSE IF v = "threw" THEN Fail(Resp(op, 500, "Server error"))
      ELSE IF v = "unverified" THEN Fail(Resp(op, 400, "Verification failed"))
      ELSE Out(session, passkeys \cup {row}, requests,
               [Ok(op) EXCEPT !.auth = registered(att)])

\* POST /api/webauthn/register/verify; createPasskey throws into the outer
\* catch when credential_id is already stored (unique constraint)
RegisterVerifyResult(att) ==
  LET op == "register/verify"
      gate == requireRole(op, {"vip"})
      v == verifyRegistrationResponse(att, session.challenge)
      row == [userId |-> session.userId, credentialId |-> att.credId,
              publicKey |-> att.credId, counter |-> att.counter]
  IN  IF gate.status # 200 THEN Fail(gate)
      ELSE IF v = "threw" THEN Fail(Resp(op, 500, "Server error"))
      ELSE IF v = "unverified" THEN Fail(Resp(op, 400, "Verification failed"))
      ELSE IF getPasskeyByCredentialId(att.credId) # {}
        THEN Fail([Resp(op, 500, "Server error") EXCEPT !.auth = registered(att)])
      ELSE Out(session, passkeys \cup {row}, requests,
               [Ok(op) EXCEPT !.auth = registered(att)])

\* POST /api/webauthn/authenticate/options
AuthenticateOptionsResult ==
  LET op == "authenticate/options"
      gate == requireRole(op, {"vip"})
      creds == {p.credentialId : p \in getPasskeysByUser(session.userId)}
  IN  IF gate.status # 200 THEN Fail(gate)
      ELSE IF getPasskeysByUser(session.userId) = {}
        THEN Fail(Resp(op, 400, "No passkeys registered"))
      ELSE [Out([session EXCEPT !.challenge = nextChallenge + 1], passkeys, requests, Ok(op))
              EXCEPT !.body = [NoBody EXCEPT !.challenge = nextChallenge + 1,
                                             !.credentials = creds]]

(* ---------------------------- request parsing --------------------------- *)
\* what a client can add to a JSON body to name a caller or a challenge
ClientFields ==
  {[userId |-> "r2", expectedChallenge |-> 1],
   [userId |-> "r1", expectedChallenge |-> MaxChallenge]}

\* variant of SingleDecisionCall that refuses a body naming another user
SingleDecisionCall_TrustsBody(params, body) ==
  IF body.userId # session.userId
  THEN Fail(Resp("single", 403, "Access denied"))
  ELSE SingleDecisionResult(params.id, params.action, body.authResult)

\* const { id, action } = req.params; const { authResult } = req.body
SingleDecisionCall(params, body) ==
  SingleDecisionResult(params.id, params.action, body.authResult)

\* req.params.action; const { requestIds, authResult } = req.body
BatchDecisionCall(params, body) ==
  BatchDecisionResult(params.action, body.requestIds, body.authResult)

\* const response = req.body as RegistrationResponseJSON
RegisterVerifyCall(body) == RegisterVerifyResult(body.response)

\* the begin routes read nothing of the body
RegisterOptionsCall(body) == RegisterOptionsResult
AuthenticateOptionsCall(body) == AuthenticateOptionsResult

\* the rows createAndBroadcastNotification inserts for vipIds in POST /api/videos
NewNotifications(vipIds) ==
  [i \in 1..Len(vipIds) |-> [userId |-> vipIds[i], type |-> "verification_request"]]

\* variant of asksVerification without the uploader's flag
asksVerification_Unapproved(vipIds) == Len(vipIds) > 0

\* if (user.isAuthApproved && vipIds.length > 0)
asksVerification(vipIds) == isAuthApproved /\ Len(vipIds) > 0

\* the rows POST /api/videos inserts for vipIds
NewRequests(videoId, vipIds) ==
  [i \in 1..Len(vipIds) |->
     [videoId |-> videoId, vipId |-> vipIds[i], status |-> "pending", processedAt |-> Null]]

(* ---------------------------- live updates ----------------------------- *)
\* the connections to /ws, the user ids an auth message can carry (the id is
\* the client's word), and the registry before any connection
Sockets == {1, 2}
WsUserIds == Users
NoEntry == [has |-> FALSE, conns |-> {}]
NoSocket == [readyState |-> "CONNECTING", connectedUserId |-> NoUser]
NoLiveUpdates ==
  /\ wsConnections = [u \in WsUserIds |-> NoEntry]
  /\ sockets = [ws \in Sockets |-> NoSocket]

(* ---------------------------- calls in flight -------------------------- *)
\* two decision calls can be between their awaits at the same time
Slots == {1, 2}
Idle == [pc |-> "idle", op |-> "none", status |-> "none", named |-> {}, todo |-> <<>>]

(* ---------------------------- actions ---------------------------------- *)
Apply(out) ==
  /\ session' = out.session
  /\ passkeys' = out.passkeys
  /\ requests' = out.requests
  /\ notifications' = out.notifications
  /\ last' = out.res

\* a begin call that answered 200 issued the next fresh challenge
Issue ==
  /\ nextChallenge' = IF last'.status = 200 THEN nextChallenge + 1 ELSE nextChallenge
  /\ issued' = IF last'.status = 200 THEN issued \cup {nextChallenge + 1} ELSE issued

\* POST /api/auth/login
LoginAs(u) ==
  /\ session' = [session EXCEPT !.userId = u]
  /\ last' = Ok("login")
  /\ UNCHANGED <<wsConnections, sockets, issued, nextChallenge, passkeys, requests, videos,
                 isAuthApproved, now, notifications, inflight>>

Login == \E u \in Actors : LoginAs(u)

\* POST /api/auth/logout
Logout ==
  /\ session' = [userId |-> NoUser, challenge |-> NoChallenge]
  /\ issued' = {}
  /\ last' = Ok("logout")
  /\ UNCHANGED <<wsConnections, sockets, nextChallenge, passkeys, requests, videos,
                 isAuthApproved, now, notifications, inflight>>

\* POST /api/videos, for an authenticated creator with a file and a title
Upload ==
  \E vipIds \in VipLists :
    /\ session.userId # NoUser
    /\ roleOf(session.userId) # "vip"
    /\ Len(videos) < MaxVideos
    /\ Len(requests) + Len(vipIds) <= MaxRequests
    /\ videos' = Append(videos, session.userId)
    /\ requests' = IF asksVerification(vipIds)
                   THEN requests \o NewRequests(Len(videos) + 1, vipIds)
                   ELSE requests
    /\ notifications' = IF asksVerification(vipIds)
                        THEN notifications \o NewNotifications(vipIds)
                        ELSE notifications
    /\ last' = Ok("upload")
    /\ UNCHANGED <<wsConnections, sockets, session, issued, nextChallenge, passkeys,
                   isAuthApproved, now, inflight>>

RegisterOptions ==
  /\ nextChallenge < MaxChallenge
  /\ Apply(RegisterOptionsResult)
  /\ Issue
  /\ UNCHANGED <<wsConnections, sockets, videos, isAuthApproved, now, inflight>>

RegisterVerify ==
  \E att \in Attestations :
    /\ Apply(RegisterVerifyResult(att))
    /\ UNCHANGED <<wsConnections, sockets, issued, nextChallenge, videos, isAuthApproved, now,
                   inflight>>

AuthenticateOptions ==
  /\ nextChallenge < MaxChallenge
  /\ Apply(AuthenticateOptionsResult)
  /\ Issue
  /\ UNCHANGED <<wsConnections, sockets, videos, isAuthApproved, now, inflight>>

SingleDecision ==
  \E in \in SingleInputs :
    /\ now < MaxTime
    /\ Apply(SingleDecisionResult(in[1], in[2], in[3]))
    /\ now' = IF requests' # requests THEN now + 1 ELSE now
    /\ UNCHANGED <<wsConnections, sockets, issued, nextChallenge, videos, isAuthApproved,
                   inflight>>

BatchDecision ==
  \E in \in BatchInputs :
    /\ now < MaxTime
    /\ Apply(BatchDecisionResult(in[1], in[2], in[3]))
    /\ now' = IF requests' # requests THEN now + 1 ELSE now
    /\ UNCHANGED <<wsConnections, sockets, issued, nextChallenge, videos, isAuthApproved,
                   inflight>>

Init ==
  /\ session = [userId |-> NoUser, challenge |-> NoChallenge]
  /\ issued = {}
  /\ nextChallenge = 0
  /\ passkeys = {[userId |-> "r2", credentialId |-> "k2", publicKey |-> "k2", counter |-> 0]}
  /\ requests = <<>>
  /\ notifications = <<>>
  /\ videos = <<>>
  /\ isAuthApproved \in BOOLEAN
  /\ now = 0
  /\ NoLiveUpdates
  /\ inflight = [c \in Slots |-> Idle]
  /\ last = Resp("boot", 200, "")

Next ==
  \/ Login
  \/ Logout
  \/ Upload
  \/ RegisterOptions
  \/ RegisterVerify
  \/ AuthenticateOptions
  \/ SingleDecision
  \/ BatchDecision

Spec == Init /\ [][Next]_vars

(* ---------------------------- one session, every identity -------------- *)
\* The session routes with the logins of every user, r2 included, and the
\* single decision as the verify step; nothing is uploaded.
AnyLogin == \E u \in Users : LoginAs(u)

SessionNext ==
  \/ AnyLogin
  \/ Logout
  \/ RegisterOptions
  \/ AuthenticateOptions
  \/ SingleDecision

SpecSession == Init /\ [][SessionNext]_vars

(* ---------------------------- live-update connections ---------------- *)
\* wss.on("connection"): the socket is open and its connectedUserId is null
WsConnection(ws) ==
  /\ sockets[ws].readyState = "CONNECTING"
  /\ sockets' = [sockets EXCEPT ![ws].readyState = "OPEN"]
  /\ UNCHANGED <<wsConnections, session, issued, nextChallenge, passkeys, requests, videos,
                 isAuthApproved, now, notifications, inflight, last>>

\* ws.on("message") with { type: "auth", userId }
WsMessage(ws, userId) ==
  /\ sockets[ws].readyState = "OPEN"
  /\ sockets' = [sockets EXCEPT ![ws].connectedUserId = userId]
  /\ wsConnections' = [wsConnections EXCEPT ![userId] =
                         [has |-> TRUE, conns |-> (IF @.has THEN @.conns ELSE {}) \cup {ws}]]
  /\ UNCHANGED <<session, issued, nextChallenge, passkeys, requests, videos, isAuthApproved,
                 now, notifications, inflight, last>>

\* ws.on("close")
WsClose(ws) ==
  LET connectedUserId == sockets[ws].connectedUserId
      connections == wsConnections[connectedUserId].conns \ {ws}
  IN  /\ sockets[ws].readyState = "OPEN"
      /\ sockets' = [sockets EXCEPT ![ws].readyState = "CLOSED"]
      /\ wsConnections' =
           IF connectedUserId # NoUser /\ wsConnections[connectedUserId].has
           THEN [wsConnections EXCEPT ![connectedUserId] =
                   IF connections = {} THEN NoEntry
                   ELSE [has |-> TRUE, conns |-> connections]]
           ELSE wsConnections
      /\ UNCHANGED <<session, issued, nextChallenge, passkeys, requests, videos, isAuthApproved,
                     now, notifications, inflight, last>>

WsNext ==
  \E ws \in Sockets :
    \/ WsConnection(ws)
    \/ \E userId \in WsUserIds : WsMessage(ws, userId)
    \/ WsClose(ws)

SpecWs == Init /\ [][WsNext]_vars

(* ---------------------------- interleaved decisions -------------------- *)
\* The decision handlers await the store between their reads and their
\* writes. Here a call runs in steps: ConcStart is the handler up to its
\* status mapping (role gate, validation reads, verification block, counter
\* write), ConcWrite is one updateVerificationRequestStatus, ConcRespond is
\* the answer; the steps of the two slots interleave.
ConcAssertion == [id |-> "k1", challenge |-> 1, counter |-> 0, sigOK |-> TRUE]
ConcInputs ==
  {<<op, a, ids>> : op \in {"single", "batch"}, a \in {"verify", "reject", "ignore"},
                    ids \in {<<1>>, <<2>>, <<1, 2>>}}

\* r1 holds the passkey k1 and the challenge 1 it registered with; c1's video
\* waits for r1 twice
ConcInit ==
  /\ session = [userId |-> "r1", challenge |-> 1]
  /\ issued = {1}
  /\ nextChallenge = 1
  /\ passkeys = {[userId |-> "r2", credentialId |-> "k2", publicKey |-> "k2", counter |-> 0],
                 [userId |-> "r1", credentialId |-> "k1", publicKey |-> "k1", counter |-> 0]}
  /\ requests = NewRequests(1, <<"r1", "r1">>)
  /\ notifications = NewNotifications(<<"r1", "r1">>)
  /\ videos = <<"c1">>
  /\ isAuthApproved = TRUE
  /\ now = 0
  /\ NoLiveUpdates
  /\ inflight = [c \in Slots |-> Idle]
  /\ last = [Ok("register/verify") EXCEPT
               !.auth = [id |-> "k1", challenge |-> 1, counter |-> 0, sigOK |-> TRUE]]

ConcStart(c) ==
  \E in \in ConcInputs :
    LET auth == IF in[2] = "ignore" THEN NoAuth ELSE ConcAssertion
        out == IF in[1] = "single"
               THEN SingleDecisionResult(in[3][1], in[2], auth)
               ELSE BatchDecisionResult(in[2], in[3], auth)
        ids == IF in[1] = "single" THEN <<in[3][1]>> ELSE in[3]
    IN  /\ inflight[c].pc = "idle"
        /\ passkeys' = out.passkeys
        /\ IF out.res.status = 200
           THEN /\ inflight' = [inflight EXCEPT ![c] =
                                 [pc |-> "apply", op |-> in[1], status |-> statusOf(in[2]),
                                  named |-> {i \in DOMAIN requests :
                                               \E k \in DOMAIN ids :
                                                 ids[k] = i /\ requests[i].status = "pending"},
                                  todo |-> ids]]
                /\ last' = last
           ELSE /\ inflight' = [inflight EXCEPT ![c] = [Idle EXCEPT !.pc = "done", !.op = in[1]]]
                /\ last' = out.res
        /\ UNCHANGED <<wsConnections, sockets, session, issued, nextChallenge, requests, videos,
                       isAuthApproved, now, notifications>>

ConcWrite(c) ==
  /\ inflight[c].pc = "apply" /\ inflight[c].todo # <<>>
  /\ requests' = updateVerificationRequestStatus(requests, Head(inflight[c].todo),
                                                  inflight[c].status, now + 1)
  /\ now' = now + 1
  /\ inflight' = [inflight EXCEPT ![c].todo = Tail(@)]
  /\ UNCHANGED <<wsConnections, sockets, session, issued, nextChallenge, passkeys, videos,
                 isAuthApproved, notifications, last>>

ConcRespond(c) ==
  /\ inflight[c].pc = "apply" /\ inflight[c].todo = <<>>
  /\ inflight' = [inflight EXCEPT ![c].pc = "done"]
  /\ last' = Ok(inflight[c].op)
  /\ UNCHANGED <<wsConnections, sockets, session, issued, nextChallenge, passkeys, requests,
                 videos, isAuthApproved, now, notifications>>

ConcNext == \E c \in Slots : ConcStart(c) \/ ConcWrite(c) \/ ConcRespond(c)

SpecConc == ConcInit /\ [][ConcNext]_vars

(* ---------------------------- decisions in steps ----------------------- *)
\* The decision handlers again, one step per await: every store call and the
\* verification primitive is a step of its own, a store call either answers
\* or throws, and the steps of the two slots interleave. A call keeps what it
\* read (rows, pks, found), what it still has to write (todo), the calls it
\* has made so far (done, as <<name, argument>>) and its response (res,
\* status 0 until it answers).
StepAssertions ==
  {[id |-> "k1", challenge |-> 1, counter |-> n, sigOK |-> TRUE] : n \in 0..MaxCounter}
StepInputs ==
  {<<op, a, ids, auth>> :
     op \in {"single", "batch"}, a \in {"verify", "ignore"},
     ids \in {<<1>>, <<1, 2>>, <<MaxRequests + 1>>}, auth \in StepAssertions \cup {NoAuth}}
NoCall ==
  [pc |-> "idle", op |-> "none", action |-> "none", ids |-> <<>>, auth |-> NoAuth,
   rows |-> <<>>, pks |-> {}, found |-> {}, todo |-> {}, done |-> <<>>,
   threw |-> "none", res |-> Resp("none", 0, "")]

\* r1 holds the challenge 1 of a registration it began, and has either
\* finished it (k1 stored) or not; c1's video waits for r1 twice
StepsInit ==
  /\ session = [userId |-> "r1", challenge |-> 1]
  /\ issued = {1}
  /\ nextChallenge = 1
  /\ passkeys \in
       {{[userId |-> "r2", credentialId |-> "k2", publicKey |-> "k2", counter |-> 0]},
        {[userId |-> "r2", credentialId |-> "k2", publicKey |-> "k2", counter |-> 0],
         [userId |-> "r1", credentialId |-> "k1", publicKey |-> "k1", counter |-> 0]}}
  /\ requests = NewRequests(1, <<"r1", "r1">>)
  /\ notifications = NewNotifications(<<"r1", "r1">>)
  /\ videos = <<"c1">>
  /\ isAuthApproved = TRUE
  /\ now = 0
  /\ NoLiveUpdates
  /\ inflight = [c \in Slots |-> NoCall]
  /\ last = Ok("register/options")

\* the call of slot c goes on with the fields of next
Goes(c, next) == inflight' = [inflight EXCEPT ![c] = next]
Did(call, name, arg) == [call EXCEPT !.done = Append(@, <<name, arg>>)]
\* res.status(...).json(...) and return
Answer(call, res) == [call EXCEPT !.pc = "done", !.res = res]
\* a store call threw and the catch block that encloses it answered
Caught(call, name, arg, res) == Answer([Did(call, name, arg) EXCEPT !.threw = name], res)
\* catch (error) of the handler: res.status(500).json({ error: "Server error" })
ServerError(op) == Resp(op, 500, "Server error")
\* catch (error) around the verification: 400 "Passkey verification failed"
VerificationFailed(op) == Resp(op, 400, "Passkey verification failed")

\* variant of allRead that does not await the validation reads
allRead_NoAwait(call) == TRUE

\* await Promise.all(requestIds.map(id => storage.getVerificationRequest(id)))
allRead(call) == DOMAIN call.rows = DOMAIN call.ids

\* variant of toApply that writes the first request only
toApply_FirstOnly(ids) == {1}

\* requestIds.map(id => storage.updateVerificationRequestStatus(id, status)):
\* the positions of the list to write
toApply(ids) == DOMAIN ids

\* variant of siblings in which a failed write stops the others
siblings_Stopped(todo, k) == {}

\* Promise.all over the status writes: all of them are issued, and the ones
\* that are left when the write of position k ends
siblings(todo, k) == todo \ {k}

\* the middleware and the checks before the first await
StepStart(c) ==
  \E in \in StepInputs :
    LET op == in[1]
        call == [NoCall EXCEPT !.op = op, !.action = in[2],
                               !.ids = IF op = "single" THEN <<in[3][1]>> ELSE in[3],
                               !.auth = IF in[2] = "ignore" THEN NoAuth ELSE in[4]]
        gate == requireRole(op, {"vip"})
    IN  /\ inflight[c].pc = "idle"
        /\ in[2] = "ignore" => in[4] = NoAuth
        /\ op = "single" => Len(in[3]) = 1
        /\ IF gate.status # 200 THEN Goes(c, Answer(call, gate))
           ELSE IF call.action \notin {"verify", "reject", "ignore"}
             THEN Goes(c, Answer(call, Resp(op, 400, "Invalid action")))
           ELSE IF op = "batch" /\ call.ids = <<>>
             THEN Goes(c, Answer(call, Resp(op, 400, "No request IDs provided")))
           ELSE Goes(c, [call EXCEPT !.pc = IF op = "batch" THEN "read" ELSE "passkeys"])
        /\ UNCHANGED <<wsConnections, sockets, session, issued, nextChallenge, passkeys,
                       requests, videos, isAuthApproved, now, notifications, last>>

\* one storage.getVerificationRequest(id) of the batch's validation phase,
\* taken in the order of the list
StepRead(c) ==
  LET call == inflight[c]
      k == Len(call.rows) + 1
      id == call.ids[k]
  IN  /\ call.pc = "read"
      /\ k \in DOMAIN call.ids
      /\ \/ Goes(c, [Did(call, "getVerificationRequest", id)
                       EXCEPT !.rows = Append(@, getVerificationRequest(id))])
         \/ Goes(c, Caught(call, "getVerificationRequest", id, ServerError(call.op)))
      /\ UNCHANGED <<wsConnections, sockets, session, issued, nextChallenge, passkeys, requests,
                     videos, isAuthApproved, now, notifications, last>>

\* the batch's invalidRequests filter, over the rows the reads answered
StepValidate(c) ==
  LET call == inflight[c]
      invalid == {k \in DOMAIN call.rows :
                    \/ call.rows[k] = {}
                    \/ \E vr \in call.rows[k] :
                         vr.vipId # session.userId \/ vr.status # "pending"}
  IN  /\ call.pc = "read"
      /\ allRead(call)
      /\ IF invalid # {}
         THEN Goes(c, Answer(call, Resp(call.op, 400,
                                        "Some requests are invalid or not pending")))
         ELSE IF call.action # "ignore" THEN Goes(c, [call EXCEPT !.pc = "passkeys"])
         ELSE Goes(c, [call EXCEPT !.pc = "write", !.todo = toApply(call.ids)])
      /\ UNCHANGED <<wsConnections, sockets, session, issued, nextChallenge, passkeys, requests,
                     videos, isAuthApproved, now, notifications, last>>

\* storage.getPasskeysByUser and the checks up to the inner try block
StepPasskeys(c) ==
  LET call == inflight[c]
      op == call.op
      pks == getPasskeysByUser(session.userId)
      read == [Did(call, "getPasskeysByUser", session.userId) EXCEPT !.pks = pks]
      found == {p \in pks : p.credentialId = call.auth.id}
  IN  /\ call.pc = "passkeys"
      /\ \/ Goes(c, Caught(call, "getPasskeysByUser", session.userId, ServerError(op)))
         \/ IF op = "single"
            THEN IF call.action = "ignore" \/ pks = {}
                   THEN Goes(c, [read EXCEPT !.pc = "write", !.todo = toApply(call.ids)])
                 ELSE IF call.auth = NoAuth
                   THEN Goes(c, Answer(read, Resp(op, 400, "Passkey authentication required")))
                 ELSE Goes(c, [read EXCEPT !.pc = "lookup"])
            ELSE IF pks = {}
                   THEN Goes(c, Answer(read, Resp(op, 400, "No passkey registered")))
                 ELSE IF call.auth = NoAuth
                   THEN Goes(c, Answer(read, Resp(op, 400, "Passkey verification required")))
                 ELSE IF found = {}
                   THEN Goes(c, Answer(read, Resp(op, 400, "Passkey not found")))
                 ELSE Goes(c, [read EXCEPT !.pc = "verify", !.found = found])
      /\ UNCHANGED <<wsConnections, sockets, session, issued, nextChallenge, passkeys, requests,
                     videos, isAuthApproved, now, notifications, last>>

\* storage.getPasskeyByCredentialId of the single decision, in the inner try
StepLookup(c) ==
  LET call == inflight[c]
      found == getPasskeyByCredentialId(call.auth.id)
      read == Did(call, "getPasskeyByCredentialId", call.auth.id)
  IN  /\ call.pc = "lookup"
      /\ \/ Goes(c, Caught(call, "getPasskeyByCredentialId", call.auth.id,
                           VerificationFailed(call.op)))
         \/ IF found = {}
            THEN Goes(c, Answer(read, Resp(call.op, 400, "Invalid passkey")))
            ELSE Goes(c, [read EXCEPT !.pc = "verify", !.found = found])
      /\ UNCHANGED <<wsConnections, sockets, session, issued, nextChallenge, passkeys, requests,
                     videos, isAuthApproved, now, notifications, last>>

\* verifyAuthenticationResponse against the row the call read
StepVerify(c) ==
  LET call == inflight[c]
      passkey == CHOOSE p \in call.found : TRUE
      tried == Did(call, "verifyAuthenticationResponse", session.challenge)
  IN  /\ call.pc = "verify"
      /\ IF verifyAuthenticationResponse(call.auth, session.challenge, passkey) # "verified"
         THEN Goes(c, Answer(tried, VerificationFailed(call.op)))
         ELSE Goes(c, [tried EXCEPT !.pc = "counter"])
      /\ UNCHANGED <<wsConnections, sockets, session, issued, nextChallenge, passkeys, requests,
                     videos, isAuthApproved, now, notifications, last>>

\* storage.updatePasskeyCounter(passkey.id, newCounter), in the inner try
StepCounter(c) ==
  LET call == inflight[c]
      passkey == CHOOSE p \in call.found : TRUE
  IN  /\ call.pc = "counter"
      /\ \/ /\ Goes(c, Caught(call, "updatePasskeyCounter", passkey.credentialId,
                              VerificationFailed(call.op)))
            /\ passkeys' = passkeys
         \/ /\ Goes(c, [Did(call, "updatePasskeyCounter", passkey.credentialId)
                          EXCEPT !.pc = "write", !.todo = toApply(call.ids)])
            /\ passkeys' = updatePasskeyCounter(passkeys, passkey.credentialId,
                                                call.auth.counter)
      /\ UNCHANGED <<wsConnections, sockets, session, issued, nextChallenge, requests, videos,
                     isAuthApproved, now, notifications, last>>

\* one storage.updateVerificationRequestStatus(id, status). A write that
\* throws rejects the batch's Promise.all, the handler's catch answers at
\* once, and the writes already issued still end.
StepWrite(c) ==
  LET call == inflight[c]
  IN  /\ call.pc = "write"
      /\ \E k \in call.todo :
           LET id == call.ids[k]
               wrote == [Did(call, "updateVerificationRequestStatus", id)
                           EXCEPT !.todo = siblings(call.todo, k)]
               failed == [Did(call, "updateVerificationRequestStatus failed", id)
                            EXCEPT !.todo = siblings(call.todo, k),
                                   !.threw = "updateVerificationRequestStatus",
                                   !.res = IF @.status = 0 THEN ServerError(call.op) ELSE @]
           IN  \/ /\ Goes(c, failed)
                  /\ requests' = requests
               \/ /\ call.op = "single" /\ id \notin DOMAIN requests
                  /\ Goes(c, Answer(wrote, Resp(call.op, 404, "Request not found")))
                  /\ requests' = requests
               \/ /\ call.op = "batch" \/ id \in DOMAIN requests
                  /\ Goes(c, wrote)
                  /\ requests' = updateVerificationRequestStatus(requests, id,
                                                                 statusOf(call.action), now + 1)
      /\ UNCHANGED <<wsConnections, sockets, session, issued, nextChallenge, passkeys, videos,
                     isAuthApproved, now, notifications, last>>

\* res.json(...) once every write has ended, unless the catch answered before
StepRespond(c) ==
  LET call == inflight[c]
      res == IF call.res.status # 0 THEN call.res
             ELSE [Ok(call.op) EXCEPT !.auth = call.auth]
  IN  /\ call.pc = "write" /\ call.todo = {}
      /\ Goes(c, Answer(call, res))
      /\ UNCHANGED <<wsConnections, sockets, session, issued, nextChallenge, passkeys, requests,
                     videos, isAuthApproved, now, notifications, last>>

StepsNext ==
  \E c \in Slots :
    \/ StepStart(c)
    \/ StepRead(c)
    \/ StepValidate(c)
    \/ StepPasskeys(c)
    \/ StepLookup(c)
    \/ StepVerify(c)
    \/ StepCounter(c)
    \/ StepWrite(c)
    \/ StepRespond(c)

SpecSteps == StepsInit /\ [][StepsNext]_vars

(* ======================================================================= *)
(* Properties.  A property of a route is stated over every call the route  *)
(* can receive in the current state: <Route>Result(inputs) is what the     *)
(* action of the route applies.                                            *)
(* ======================================================================= *)
caller == session.userId
Reviewer == caller \in Users /\ roleOf(caller) = "vip"
Credentialed == {"verify", "reject"}
Pending(id) == id \in DOMAIN requests /\ requests[id].status = "pending"
Single(in) == SingleDecisionResult(in[1], in[2], in[3])
Batch(in) == BatchDecisionResult(in[1], in[2], in[3])
Names(ids, id) == \E k \in DOMAIN ids : ids[k] = id
Untouched(out) ==
  /\ out.requests = requests /\ out.passkeys = passkeys /\ out.session = session
  /\ out.notifications = notifications
\* the assertion does not pass the verify step against the credential looked up
AssertionFails(auth, found) ==
  \/ found = {}
  \/ \E p \in found : verifyAuthenticationResponse(auth, session.challenge, p) # "verified"
\* the stored rows of out are those of the state, with the counter of
\* credential cid (if any) set to counter
CountersAre(out, cid, counter) ==
  /\ Cardinality(out.passkeys) = Cardinality(passkeys)
  /\ \A p \in passkeys :
       [p EXCEPT !.counter = IF p.credentialId = cid THEN counter ELSE @] \in out.passkeys

\* C1: terminal states are absorbing. Once a request is verified, rejected or
\* ignored, no single-decision or batch-decision call changes its status or
\* its processedAt, and a decision aimed at it answers an error.
C1_TerminalAbsorbing ==
  \A i \in DOMAIN requests :
    requests[i].status # "pending" =>
      /\ \A in \in SingleInputs :
           /\ Single(in).requests[i] = requests[i]
           /\ (in[1] = i => Single(in).res.status >= 400)
      /\ \A in \in BatchInputs :
           /\ Batch(in).requests[i] = requests[i]
           /\ (Names(in[2], i) => Batch(in).res.status >= 400)

\* C2: a single-decision verify or reject by a reviewer who owns no
\* credential, aimed at a pending request addressed to that reviewer, answers
\* a "passkey required" error and changes no request.
PasskeyRequiredErrors ==
  {"Passkey authentication required", "No passkey registered", "Passkey verification required"}
C2_ZeroCredentialsRefused ==
  (Reviewer /\ getPasskeysByUser(caller) = {}) =>
    \A id \in DOMAIN requests, a \in Credentialed, auth \in AuthInputs :
      (Pending(id) /\ requests[id].vipId = caller) =>
      LET out == SingleDecisionResult(id, a, auth)
      IN  /\ out.res.status = 400
          /\ out.res.error \in PasskeyRequiredErrors
          /\ out.requests = requests

\* C3: a single-decision call by reviewer R on a request addressed to another
\* reviewer is rejected and changes neither that request nor any counter.
C3_OwnershipEnforced ==
  Reviewer =>
    \A in \in SingleInputs :
      (in[1] \in DOMAIN requests /\ requests[in[1]].vipId # caller
         /\ in[2] \in {"verify", "reject", "ignore"}) =>
        /\ Single(in).res.status >= 400
        /\ Single(in).requests[in[1]] = requests[in[1]]
        /\ Single(in).passkeys = passkeys

\* C4: batch validation is all-or-nothing. A batch that names a request that
\* is missing, addressed to another reviewer or not pending fails and leaves
\* every request, every counter and the session challenge as they were.
C4_BatchValidationAtomic ==
  \A in \in BatchInputs :
    (\E k \in DOMAIN in[2] :
       \/ in[2][k] \notin DOMAIN requests
       \/ requests[in[2][k]].vipId # caller
       \/ requests[in[2][k]].status # "pending") =>
      /\ Batch(in).res.status >= 400
      /\ Untouched(Batch(in))

\* a batch that named a valid and a foreign request was refused
C4_Witness ==
  /\ last.op = "batch"
  /\ last.error = "Some requests are invalid or not pending"
  /\ Len(requests) = 2
  /\ requests[1].vipId = caller /\ requests[1].status = "pending"
  /\ requests[2].vipId # caller /\ requests[2].status = "pending"

\* C5: a failed assertion verification applies no decision. When the
\* assertion of a verify or reject call does not pass the verify step (unknown
\* credential, other challenge, bad signature, counter refused, a throw) the
\* single call and the batch call answer 400 and change no request.
C5_FailedVerificationAppliesNothing ==
  (Reviewer /\ getPasskeysByUser(caller) # {}) =>
    \A a \in Credentialed, auth \in Assertions :
      /\ AssertionFails(auth, getPasskeyByCredentialId(auth.id)) =>
           \A id \in RequestIds :
             /\ SingleDecisionResult(id, a, auth).res.status = 400
             /\ SingleDecisionResult(id, a, auth).requests = requests
      /\ AssertionFails(auth, {p \in getPasskeysByUser(caller) : p.credentialId = auth.id}) =>
           \A ids \in IdLists :
             /\ BatchDecisionResult(a, ids, auth).res.status = 400
             /\ BatchDecisionResult(a, ids, auth).requests = requests

\* a verify step failed while a request addressed to the caller is pending
C5_Witness ==
  /\ last.op \in {"single", "batch"}
  /\ last.error = "Passkey verification failed"
  /\ \E i \in DOMAIN requests : requests[i].vipId = caller /\ requests[i].status = "pending"

\* C6: ignore needs no credential. Whatever credentials the reviewer owns and
\* whatever assertion is posted, a single ignore on a pending request
\* addressed to the caller and a batch ignore of such requests answer 200, set
\* the named requests to ignored, verify no assertion, and leave every
\* counter and the session (its challenge included) as they were.
C6_IgnoreNeedsNoCredential ==
  Reviewer =>
    \A auth \in AuthInputs :
      /\ \A id \in DOMAIN requests :
           (Pending(id) /\ requests[id].vipId = caller) =>
             LET out == SingleDecisionResult(id, "ignore", auth)
             IN  /\ out.res.status = 200 /\ out.res.auth = NoAuth
                 /\ out.requests =
                      [requests EXCEPT ![id] = [@ EXCEPT !.status = "ignored",
                                                         !.processedAt = now + 1]]
                 /\ out.passkeys = passkeys /\ out.session = session
      /\ \A ids \in IdLists \ {<<>>} :
           (\A k \in DOMAIN ids : Pending(ids[k]) /\ requests[ids[k]].vipId = caller) =>
             LET out == BatchDecisionResult("ignore", ids, auth)
             IN  /\ out.res.status = 200 /\ out.res.auth = NoAuth
                 /\ \A i \in DOMAIN requests :
                      out.requests[i] =
                        IF Names(ids, i)
                        THEN [requests[i] EXCEPT !.status = "ignored", !.processedAt = now + 1]
                        ELSE requests[i]
                 /\ out.passkeys = passkeys /\ out.session = session

\* a reviewer without any credential has ignored both requests, one by one
C6_Witness ==
  /\ Reviewer /\ getPasskeysByUser(caller) = {}
  /\ last.op = "batch" /\ last.status = 200
  /\ Len(requests) = 2
  /\ \A i \in DOMAIN requests : requests[i].vipId = caller /\ requests[i].status = "ignored"
  /\ requests[1].processedAt # requests[2].processedAt

\* C7: right after a decision completed with a verified assertion, the same
\* assertion posted again (no begin call in between) for another pending
\* request is refused and that request stays pending.
C7_ReplayRefused ==
  (last.op \in {"single", "batch"} /\ last.status = 200 /\ last.auth # NoAuth) =>
    \A id \in DOMAIN requests, a \in Credentialed :
      Pending(id) =>
        /\ SingleDecisionResult(id, a, last.auth).res.status >= 400
        /\ SingleDecisionResult(id, a, last.auth).requests = requests
        /\ BatchDecisionResult(a, <<id>>, last.auth).res.status >= 400
        /\ BatchDecisionResult(a, <<id>>, last.auth).requests = requests

\* C8: one challenge slot per session. An assertion built over a challenge
\* that was issued to this session and then overwritten by a later begin call
\* is refused by a verify or reject decision, and the request stays pending.
C8_OverwrittenChallengeRefused ==
  \A auth \in Assertions :
    (auth.challenge \in issued /\ auth.challenge # session.challenge) =>
      \A id \in DOMAIN requests, a \in Credentialed :
        Pending(id) =>
          /\ SingleDecisionResult(id, a, auth).res.status >= 400
          /\ SingleDecisionResult(id, a, auth).requests = requests
          /\ BatchDecisionResult(a, <<id>>, auth).res.status >= 400
          /\ BatchDecisionResult(a, <<id>>, auth).requests = requests

\* the assertion passes the verify step of the single / of the batch decision
SingleVerifies(a, auth) ==
  /\ Reviewer /\ a \in Credentialed /\ auth \in Assertions
  /\ getPasskeysByUser(caller) # {}
  /\ ~AssertionFails(auth, getPasskeyByCredentialId(auth.id))
BatchVerifies(a, ids, auth) ==
  /\ Reviewer /\ a \in Credentialed /\ auth \in Assertions
  /\ ids # <<>>
  /\ \A k \in DOMAIN ids : Pending(ids[k]) /\ requests[ids[k]].vipId = caller
  /\ ~AssertionFails(auth, {p \in getPasskeysByUser(caller) : p.credentialId = auth.id})

\* C9: stored counters are written by a successful assertion verification
\* only. A decision whose assertion passes the verify step sets the counter of
\* the credential named to the counter the primitive reports (the assertion's),
\* also when it equals the stored one, and changes no other row; every other
\* decision call, and registration, leaves every stored counter as it was.
C9_CounterWrittenOnSuccessOnly ==
  /\ \A in \in SingleInputs :
       IF SingleVerifies(in[2], in[3])
       THEN CountersAre(Single(in), in[3].id, in[3].counter)
       ELSE Single(in).passkeys = passkeys
  /\ \A in \in BatchInputs :
       IF BatchVerifies(in[1], in[2], in[3])
       THEN CountersAre(Batch(in), in[3].id, in[3].counter)
       ELSE Batch(in).passkeys = passkeys
  /\ \A att \in Attestations : passkeys \subseteq RegisterVerifyResult(att).passkeys
  /\ RegisterOptionsResult.passkeys = passkeys
  /\ AuthenticateOptionsResult.passkeys = passkeys

\* a verification with k1 wrote its counter and left the one of k2 alone
C9_Witness ==
  /\ last.op \in {"single", "batch"} /\ last.status = 200
  /\ last.auth # NoAuth /\ last.auth.id = "k1" /\ last.auth.counter = 1
  /\ \E p \in passkeys : p.credentialId = "k1" /\ p.counter = 1
  /\ \E p \in passkeys : p.credentialId = "k2" /\ p.counter = 0

\* C10: a call of begin-registration, verify-registration,
\* begin-authentication, the single or the batch decision made without a
\* logged-in user, or by a user who is no reviewer, answers 401 or 403 and
\* changes no request, credential, counter or session challenge.
Gated(out) == out.res.status \in {401, 403} /\ Untouched(out)
C10_GateBeforeLogic ==
  ~Reviewer =>
    /\ Gated(RegisterOptionsResult)
    /\ Gated(AuthenticateOptionsResult)
    /\ \A att \in Attestations : Gated(RegisterVerifyResult(att))
    /\ \A in \in SingleInputs : Gated(Single(in))
    /\ \A in \in BatchInputs : Gated(Batch(in))

\* a creator's batch call was turned away while a request was pending
C10_Witness ==
  /\ caller \in Creators
  /\ last.op = "batch" /\ last.status = 403
  /\ \E i \in DOMAIN requests : requests[i].status = "pending"

\* an assertion of one of the caller's credentials, signed over the challenge
\* the session was issued, with a counter the authenticator advanced (or 0)
HappyAssertion(auth) ==
  /\ auth.sigOK
  /\ session.challenge \in issued /\ auth.challenge = session.challenge
  /\ \E p \in passkeys :
       /\ p.userId = caller /\ p.credentialId = auth.id
       /\ (auth.counter > p.counter \/ (auth.counter = 0 /\ p.counter = 0))

\* C11: happy path of the single decision. A reviewer who owns a credential,
\* holds an issued challenge and posts verify (reject) for a pending request
\* addressed to them with a valid assertion over that challenge gets 200; the
\* request becomes verified (rejected) with processedAt set, the counter of
\* the credential used is the assertion's, and no other request changes.
C11_SingleHappyPath ==
  Reviewer =>
    \A id \in DOMAIN requests, a \in Credentialed, auth \in Assertions :
      (Pending(id) /\ requests[id].vipId = caller /\ HappyAssertion(auth)) =>
        LET out == SingleDecisionResult(id, a, auth)
        IN  /\ out.res.status = 200
            /\ out.requests =
                 [requests EXCEPT ![id] =
                    [@ EXCEPT !.status = IF a = "verify" THEN "verified" ELSE "rejected",
                              !.processedAt = now + 1]]
            /\ out.requests[id].processedAt # Null
            /\ CountersAre(out, auth.id, auth.counter)

\* a reviewer rejected the first request with an assertion that advanced the
\* counter; the second request is still pending
C11_Witness ==
  /\ last.op = "single" /\ last.status = 200
  /\ last.auth # NoAuth /\ last.auth.counter = 1
  /\ \E p \in passkeys :
       p.userId = caller /\ p.credentialId = last.auth.id /\ p.counter = 1
  /\ Len(requests) = 2
  /\ requests[1].vipId = caller /\ requests[1].status = "rejected"
  /\ requests[1].processedAt # Null
  /\ requests[2].status = "pending"

\* the batch passes validation, the credential gate and the verify step
BatchPasses(a, ids, auth) ==
  \/ BatchVerifies(a, ids, auth)
  \/ /\ Reviewer /\ a = "ignore" /\ ids # <<>>
     /\ \A k \in DOMAIN ids : Pending(ids[k]) /\ requests[ids[k]].vipId = caller
Transitioned(out) == {i \in DOMAIN requests : out.requests[i] # requests[i]}

\* C12: a batch decision that passes validation, the credential gate and the
\* assertion verification sets every named request to the status of the
\* action with processedAt stamped, leaves every other request as it was, and
\* answers a processed count equal to the number of requests it transitioned.
C12_BatchAppliesAndCounts ==
  \A in \in BatchInputs :
    BatchPasses(in[1], in[2], in[3]) =>
      LET out == Batch(in)
          mapped == IF in[1] = "verify" THEN "verified"
                    ELSE IF in[1] = "reject" THEN "rejected" ELSE "ignored"
      IN  /\ out.res.status = 200
          /\ \A i \in DOMAIN requests :
               out.requests[i] =
                 IF Names(in[2], i)
                 THEN [requests[i] EXCEPT !.status = mapped, !.processedAt = now + 1]
                 ELSE requests[i]
          /\ out.body.processed = Cardinality(Transitioned(out))

\* the notifications a call inserted, and the uploader of a request's video
Emitted(out) == SubSeq(out.notifications, Len(notifications) + 1, Len(out.notifications))
uploaderOf(i) == videos[requests[i].videoId]
NotifiesCreators(out) ==
  /\ Len(out.notifications) >= Len(notifications)
  /\ \A u \in Users :
       Cardinality({k \in DOMAIN Emitted(out) : Emitted(out)[k].userId = u})
         = Cardinality({i \in Transitioned(out) : uploaderOf(i) = u})

\* C13: every successful decision notifies the creator. A single or batch
\* decision call emits, for each request whose row it changed, exactly one
\* notification addressed to the uploader of that request's video, and a
\* failed call emits none.
C13_DecisionNotifiesCreator ==
  /\ \A in \in SingleInputs : NotifiesCreators(Single(in))
  /\ \A in \in BatchInputs : NotifiesCreators(Batch(in))

\* the attestation passes verifyRegistrationResponse against the session
AttestationVerifies(att) == att.sigOK /\ att.challenge = session.challenge
NewRow(att) ==
  [userId |-> caller, credentialId |-> att.credId, publicKey |-> att.credId,
   counter |-> att.counter]
StoresExactly(out, att) ==
  /\ NewRow(att) \notin passkeys
  /\ out.passkeys = passkeys \cup {NewRow(att)}
  /\ Cardinality(out.passkeys) = Cardinality(passkeys) + 1

\* C14 as stated: verify-registration persists a credential only on success.
\* When the attestation verification fails nothing is stored or changed; when
\* it succeeds exactly one new credential is stored, owned by the caller, with
\* the identifier, public key and counter the verification reports.
C14_PersistsOnSuccess ==
  Reviewer =>
    \A att \in Attestations :
      IF AttestationVerifies(att)
      THEN StoresExactly(RegisterVerifyResult(att), att)
      ELSE RegisterVerifyResult(att).passkeys = passkeys

\* C14 amended: as above when the verified credential identifier is not
\* stored yet; when it is already stored the call answers an error and the
\* stored credentials are unchanged.
C14_PersistsOnFreshSuccess ==
  Reviewer =>
    \A att \in Attestations :
      LET out == RegisterVerifyResult(att)
          stored == \E p \in passkeys : p.credentialId = att.credId
      IN  IF AttestationVerifies(att) /\ ~stored
          THEN out.res.status = 200 /\ StoresExactly(out, att)
          ELSE out.res.status >= 400 /\ out.passkeys = passkeys

\* a reviewer's registration stored their credential next to the other
\* reviewer's
C14_Witness ==
  /\ last.op = "register/verify" /\ last.status = 200
  /\ Cardinality(passkeys) = 2
  /\ \E p \in passkeys :
       /\ p.userId = caller /\ p.credentialId = last.auth.id
       /\ p.counter = last.auth.counter /\ p.publicKey = last.auth.id

\* the credential identifiers stored for the caller
OwnCredentialIds == {p.credentialId : p \in {q \in passkeys : q.userId = caller}}

\* C15: begin-authentication by a reviewer without credentials answers an
\* error, issues no challenge and leaves the session challenge as it was; with
\* at least one credential it issues a challenge, answers it with an
\* allow-list that is exactly the caller's stored credential identifiers, and
\* stores that challenge in the session.
C15_BeginAuthentication ==
  Reviewer =>
    LET out == AuthenticateOptionsResult
    IN  IF OwnCredentialIds = {}
        THEN /\ out.res.status >= 400
             /\ out.body.challenge = NoChallenge
             /\ out.session = session
        ELSE /\ out.res.status = 200
             /\ out.body.challenge # NoChallenge
             /\ out.body.credentials = OwnCredentialIds
             /\ out.session = [session EXCEPT !.challenge = out.body.challenge]

\* a reviewer with a credential was issued a challenge by begin-authentication
\* while the other reviewer's credential is stored too
C15_Witness ==
  /\ last.op = "authenticate/options" /\ last.status = 200
  /\ session.challenge \in issued
  /\ OwnCredentialIds # {}
  /\ \E p \in passkeys : p.userId # caller

Terminal == {"verified", "rejected", "ignored"}
ProcessedIffTerminal ==
  \A i \in DOMAIN requests :
    /\ requests[i].status \in Terminal \cup {"pending"}
    /\ requests[i].processedAt # Null <=> requests[i].status \in Terminal
\* a step adds rows that are pending without processedAt, and writes the
\* processedAt of an existing row only as a decision, next to a terminal status
ProcessedAtStep ==
  /\ Len(requests') >= Len(requests)
  /\ \A i \in DOMAIN requests' :
       IF i \notin DOMAIN requests
       THEN requests'[i].status = "pending" /\ requests'[i].processedAt = Null
       ELSE requests'[i].processedAt # requests[i].processedAt =>
              /\ last'.op \in {"single", "batch"} /\ last'.status = 200
              /\ requests'[i].status \in Terminal
              /\ requests'[i].processedAt = now'

\* C16: in every reachable state a request has processedAt set if and only
\* if its status is verified, rejected or ignored; a request is created
\* pending with processedAt unset, and processedAt is written together with a
\* terminal status by a decision and by no other step.
C16_ProcessedAtIffTerminal == []ProcessedIffTerminal /\ [][ProcessedAtStep]_vars

\* one request was decided and stamped, the other is pending and unstamped
C16_Witness ==
  /\ last.op \in {"single", "batch"} /\ last.status = 200
  /\ Len(requests) = 2
  /\ requests[1].status \in Terminal /\ requests[1].processedAt = now /\ now # Null
  /\ requests[2].status = "pending" /\ requests[2].processedAt = Null

\* C17: in every reachable state no two stored credentials, of one reviewer
\* or of two, have the same credential identifier, and a verify-registration
\* whose verified credential identifier is already stored answers an error
\* and persists nothing.
C17_CredentialIdUnique ==
  /\ \A p, q \in passkeys : p.credentialId = q.credentialId => p = q
  /\ \A att \in Attestations :
       (Reviewer /\ AttestationVerifies(att)
          /\ \E p \in passkeys : p.credentialId = att.credId) =>
         /\ RegisterVerifyResult(att).res.status >= 400
         /\ RegisterVerifyResult(att).passkeys = passkeys

\* a reviewer's verified registration of the identifier stored for the other
\* reviewer was refused
C17_Witness ==
  /\ last.op = "register/verify" /\ last.status = 500 /\ last.auth # NoAuth
  /\ \E p \in passkeys : p.credentialId = last.auth.id /\ p.userId # caller
  /\ \A p \in passkeys : p.userId = caller => p.credentialId # last.auth.id

\* the bodies a client posts: the fields the protocol asks for, and its own
\* naming of a caller and of an expected challenge
SingleBody(in, f) ==
  [authResult |-> in[3], userId |-> f.userId, expectedChallenge |-> f.expectedChallenge]
BatchBody(in, f) ==
  [requestIds |-> in[2], authResult |-> in[3],
   userId |-> f.userId, expectedChallenge |-> f.expectedChallenge]
AttBody(att, f) ==
  [response |-> att, userId |-> f.userId, expectedChallenge |-> f.expectedChallenge]

C19_ChallengeConsumed ==
  /\ \A in \in SingleInputs :
       SingleVerifies(in[2], in[3]) => Single(in).session.challenge # session.challenge
  /\ \A in \in BatchInputs :
       BatchVerifies(in[1], in[2], in[3]) => Batch(in).session.challenge # session.challenge
  /\ \A att \in Attestations :
       (Reviewer /\ AttestationVerifies(att)) =>
         RegisterVerifyResult(att).session.challenge # session.challenge

\* a write of a call in flight to a request that the call named while it was
\* pending and that another call has decided since leaves the request alone
FirstWriteWins ==
  \A c \in Slots :
    (inflight[c].pc = "apply" /\ inflight'[c].todo # inflight[c].todo) =>
      LET i == Head(inflight[c].todo)
      IN  (i \in inflight[c].named /\ requests[i].status # "pending") =>
            requests'[i] = requests[i]

\* C20: concurrent decisions cannot double-transition a request. When two
\* decision calls that name the same pending request run with their reads and
\* writes interleaved, the request makes at most one terminal transition: the
\* call that writes second does not overwrite the status and processedAt the
\* first one wrote.
C20_NoDoubleTransition == [][FirstWriteWins]_vars

\* C21: a verify or reject is authorized only by a credential of the calling
\* reviewer. For a reviewer who owns a credential, an assertion that names a
\* credential stored for another reviewer is refused by the single and by the
\* batch decision, and no request and no counter changes.
C21_OwnCredentialOnly ==
  (Reviewer /\ OwnCredentialIds # {}) =>
    \A auth \in Assertions :
      (\E p \in passkeys : p.credentialId = auth.id /\ p.userId # caller) =>
        \A a \in Credentialed :
          /\ \A id \in RequestIds :
               /\ SingleDecisionResult(id, a, auth).res.status >= 400
               /\ SingleDecisionResult(id, a, auth).requests = requests
               /\ SingleDecisionResult(id, a, auth).passkeys = passkeys
          /\ \A ids \in IdLists :
               /\ BatchDecisionResult(a, ids, auth).res.status >= 400
               /\ BatchDecisionResult(a, ids, auth).requests = requests
               /\ BatchDecisionResult(a, ids, auth).passkeys = passkeys


\* the positions of a call's history at which it made the call name
Made(call, name) == {i \in DOMAIN call.done : call.done[i][1] = name}
StatusWrites(call) ==
  Made(call, "updateVerificationRequestStatus")
    \cup Made(call, "updateVerificationRequestStatus failed")

\* C22: within one batch decision no status write is made before every
\* validation read of that batch has answered, and the assertion is verified
\* only after the credential gate found a credential. A verify or reject batch
\* of a reviewer without credentials verifies no assertion, writes nothing and
\* answers an error.
C22_ValidateThenGateThenApply ==
  \A c \in Slots :
    LET call == inflight[c]
        d == call.done
    IN  call.op = "batch" =>
          /\ \A i \in StatusWrites(call) :
               /\ \A k \in DOMAIN call.ids :
                    \E j \in 1..(i - 1) : d[j] = <<"getVerificationRequest", call.ids[k]>>
               /\ \A j \in DOMAIN d : j > i => d[j][1] # "getVerificationRequest"
          /\ \A i \in Made(call, "verifyAuthenticationResponse") :
               /\ \E j \in 1..(i - 1) : d[j][1] = "getPasskeysByUser"
               /\ {q \in passkeys : q.userId = caller} # {}
          /\ (call.action \in Credentialed /\ {q \in passkeys : q.userId = caller} = {}) =>
               /\ Made(call, "verifyAuthenticationResponse") = {}
               /\ Made(call, "updatePasskeyCounter") = {}
               /\ StatusWrites(call) = {}
               /\ call.pc = "done" => call.res.status >= 400

\* a verify batch of two pending requests by a reviewer without credentials
\* was refused at the credential gate, after both validation reads
C22_Witness ==
  \E c \in Slots :
    /\ inflight[c].op = "batch" /\ inflight[c].action = "verify"
    /\ inflight[c].ids = <<1, 2>>
    /\ inflight[c].pc = "done" /\ inflight[c].res.error = "No passkey registered"
    /\ inflight[c].done = <<<<"getVerificationRequest", 1>>, <<"getVerificationRequest", 2>>,
                            <<"getPasskeysByUser", caller>>>>
    /\ getPasskeysByUser(caller) = {}
    /\ \A i \in DOMAIN requests : requests[i].status = "pending"

\* C23: a verify or reject batch verifies one assertion once, against the
\* session's challenge, and writes at most one counter, whatever the number
\* of identifiers; a batch that answers 200 made exactly one verification and
\* one counter write, and wrote the status of every request it names.
C23_OneVerificationPerBatch ==
  \A c \in Slots :
    LET call == inflight[c]
        d == call.done
    IN  (call.op = "batch" /\ call.action \in Credentialed) =>
          /\ Cardinality(Made(call, "verifyAuthenticationResponse")) <= 1
          /\ Cardinality(Made(call, "updatePasskeyCounter")) <= 1
          /\ \A i \in Made(call, "verifyAuthenticationResponse") : d[i][2] = session.challenge
          /\ StatusWrites(call) # {} =>
               /\ Cardinality(Made(call, "verifyAuthenticationResponse")) = 1
               /\ Cardinality(Made(call, "updatePasskeyCounter")) = 1
          /\ (call.pc = "done" /\ call.res.status = 200) =>
               /\ Cardinality(Made(call, "verifyAuthenticationResponse")) = 1
               /\ Cardinality(Made(call, "updatePasskeyCounter")) = 1
               /\ \A k \in DOMAIN call.ids :
                    /\ \E i \in DOMAIN d :
                         d[i] = <<"updateVerificationRequestStatus", call.ids[k]>>
                    /\ requests[call.ids[k]].status # "pending"

\* a verify batch of two requests answered 200 after one verification and one
\* counter write, and both requests are verified
C23_Witness ==
  \E c \in Slots :
    /\ inflight[c].op = "batch" /\ inflight[c].action = "verify"
    /\ inflight[c].ids = <<1, 2>>
    /\ inflight[c].pc = "done" /\ inflight[c].res.status = 200
    /\ Cardinality(Made(inflight[c], "verifyAuthenticationResponse")) = 1
    /\ Cardinality(Made(inflight[c], "updatePasskeyCounter")) = 1
    /\ requests[1].status = "verified" /\ requests[2].status = "verified"

\* C24: a single verify or reject that names a request that does not exist
\* answers an error and leaves the requests, the passkeys with their
\* counters, the session and the notifications as they were.
C24_MissingRequestChangesNothing ==
  Reviewer =>
    \A id \in RequestIds \ DOMAIN requests, a \in Credentialed, auth \in AuthInputs :
      /\ SingleDecisionResult(id, a, auth).res.status >= 400
      /\ Untouched(SingleDecisionResult(id, a, auth))

\* no step lowers the stored counter of a credential
CounterNotLowered ==
  \A p \in passkeys : \A q \in passkeys' :
    q.credentialId = p.credentialId => q.counter >= p.counter

\* C25: the stored counter of a credential never decreases, whatever the
\* interleaving of the decision calls that read it, verify and write it.
C25_CounterNeverDecreases == [][CounterNotLowered]_vars

\* C27: a decision call in which a store call threw (the credential lookup by
\* id, the counter write, a request read, a status write, the passkey list)
\* answers the generic server error, not a passkey verification failure.
C27_StoreFailureIsServerError ==
  \A c \in Slots :
    (inflight[c].threw # "none" /\ inflight[c].res.status # 0) =>
      /\ inflight[c].res.status = 500
      /\ inflight[c].res.error = "Server error"

\* C28: in the apply phase of a batch, a status write that throws neither
\* prevents nor undoes the other writes: each other named request is written
\* by the call and stays decided, and the call answers the server error, not a
\* success count.
C28_FailedWriteSparesSiblings ==
  \A c \in Slots :
    LET call == inflight[c]
        d == call.done
        failed == {d[i][2] : i \in Made(call, "updateVerificationRequestStatus failed")}
        wrote == {d[i][2] : i \in Made(call, "updateVerificationRequestStatus")}
    IN  (call.op = "batch" /\ failed # {}) =>
          /\ call.res.status = 500 /\ call.res.error = "Server error"
          /\ \A id \in wrote : requests[id].status # "pending" /\ requests[id].processedAt # Null
          /\ call.pc = "done" => \A k \in DOMAIN call.ids : call.ids[k] \in wrote \cup failed

\* a batch of two requests whose write of request 1 threw answered the server
\* error, and request 2 is ignored by the write that went on
C28_Witness ==
  \E c \in Slots :
    /\ inflight[c].op = "batch" /\ inflight[c].ids = <<1, 2>>
    /\ inflight[c].action = "ignore"
    /\ inflight[c].pc = "done" /\ inflight[c].res.status = 500
    /\ \E i \in DOMAIN inflight[c].done :
         inflight[c].done[i] = <<"updateVerificationRequestStatus failed", 1>>
    /\ \E i \in DOMAIN inflight[c].done :
         inflight[c].done[i] = <<"updateVerificationRequestStatus", 2>>
    /\ requests[1].status = "pending" /\ requests[2].status = "ignored"

\* a step that changes the session's identity leaves no expected challenge
\* that an assertion over the challenge held before satisfies, and a step
\* that ends without identity ends without challenge
ChallengeBoundToIdentity ==
  /\ (session.userId # NoUser /\ session'.userId \notin {NoUser, session.userId}
      /\ session.challenge # NoChallenge) =>
       \A auth \in Assertions : \A p \in passkeys' :
         (auth.challenge = session.challenge /\ p.userId = session'.userId
          /\ p.credentialId = auth.id) =>
           verifyAuthenticationResponse(auth, session'.challenge, p) # "verified"
  /\ session'.userId = NoUser => session'.challenge = NoChallenge

\* C26: the session's challenge is bound to the identity it was issued to. A
\* step that changes the identity of the session from one user to another
\* leaves no challenge that a verify step of the new identity accepts as the
\* expected one: no assertion signed over the challenge held before verifies
\* against the session afterwards; and a logout leaves no challenge.
C26_ChallengeBoundToIdentity == [][ChallengeBoundToIdentity]_vars

\* a step that adds verification requests is an upload of a creator whose
\* flag is set, and the rows it adds are pending, unprocessed, addressed to a
\* reviewer the upload named and attached to the video uploaded
CreatedByApprovedUpload ==
  /\ Len(requests') >= Len(requests)
  /\ Len(requests') > Len(requests) =>
       /\ isAuthApproved
       /\ session.userId \in Creators
       /\ videos' = Append(videos, session.userId)
       /\ \A i \in (Len(requests) + 1)..Len(requests') :
            /\ requests'[i].status = "pending"
            /\ requests'[i].processedAt = Null
            /\ requests'[i].vipId \in Vips
            /\ requests'[i].videoId = Len(videos')
  /\ (videos' # videos /\ ~isAuthApproved) => requests' = requests

C30_RegistryHoldsLiveConnections ==
  /\ \A ws \in Sockets :
       sockets[ws].readyState = "CLOSED" =>
         \A u \in WsUserIds : ~(wsConnections[u].has /\ ws \in wsConnections[u].conns)
  /\ \A u \in WsUserIds : wsConnections[u].has => wsConnections[u].conns # {}

====
